---- MODULE Spec2Model ----
(***************************************************************************)
(* Genetic algorithm for the travelling salesman problem                   *)
(* (codes/genetic_algorithm.py) over the weighted graph of                 *)
(* codes/graph_datastructure.py.                                           *)
(*                                                                         *)
(* Python lists are sequences; list index i is sequence index i + 1 (At).  *)
(* The calls to the random module are nondeterministic choices over all    *)
(* the values the call can return.                                         *)
(***************************************************************************)
EXTENDS Integers, Sequences, FiniteSets, TLC

VARIABLES
    graph,              \* Graph.cities: key order and each Vertex's edges
    call,               \* the last Graph method called, its arguments and outcome
    pc,                 \* position of genetic_algorithm / of the function under call
    error,              \* the exception raised, "none" when none
    pop_size, generations, mutation_rate,   \* parameters of genetic_algorithm
    gen,                \* completed iterations of the loop of line 226
    population, fitness_scores, parents, offspring, mutated_offspring,
    best_route, best_fitness,
    competitors,        \* selection: indices drawn at line 99 in the last tournament
    cuts,               \* crossover: (start, end) of line 130, one per pair
    before              \* mutate: the caller's copy of the offspring it passes

vars == <<graph, call, pc, error, pop_size, generations, mutation_rate, gen,
          population, fitness_scores, parents, offspring, mutated_offspring,
          best_route, best_fitness, competitors, cuts, before>>

----------------------------------------------------------------------------
(* Bounds *)

\* largest pop_size tried
MaxPop == 3
\* largest generations tried
MaxGen == 2
\* edge weights tried by the graph operations are 0..MaxWeight
MaxWeight == 2
\* longest route calculate_total_distance is called on
MaxRoute == 3

\* city names used by the graph operations
Names == {"A", "B"}
\* mutation_rate and random.random() are counted in halves: 1 is 0.5
Rates == {-1, 0, 1, 2, 3}
RandomDraws == {0, 1}

----------------------------------------------------------------------------
(* Python helpers *)

Range(s) == {s[i] : i \in DOMAIN s}

At(s, i) == s[i + 1]

\* the placeholder of [None] * len(parent)
None == "None"

RECURSIVE Orders(_)
\* every order in which the elements of the set S can be listed
Orders(S) ==
    IF S = {} THEN {<<>>}
    ELSE UNION {{<<x>> \o p : p \in Orders(S \ {x})} : x \in S}

\* random.shuffle(s): every reordering of s
Shuffles(s) == {[i \in 1..Len(s) |-> s[f[i]]] : f \in Orders(1..Len(s))}

\* random.sample(range(n), k): k distinct indices of 0..n-1 in draw order;
\* the call raises ValueError when k > n (the set is then empty)
Samples(n, k) ==
    {d \in [1..k -> 0..(n - 1)] : \A i, j \in 1..k : d[i] = d[j] => i = j}

----------------------------------------------------------------------------
(* graph_datastructure.py *)

\* Vertex.__init__: no edges
NoEdges == [c \in {} |-> 0]

\* Graph.__init__
EmptyGraph == [cities |-> <<>>, edges |-> [c \in {} |-> NoEdges]]

Registered(g) == DOMAIN g.edges

add_city_purge(g, name) ==
    [cities |-> IF name \in Registered(g) THEN g.cities ELSE Append(g.cities, name),
     edges  |-> [c \in Registered(g) \cup {name} |->
                    IF c = name THEN NoEdges
                    ELSE [d \in DOMAIN g.edges[c] \ {name} |-> g.edges[c][d]]]]

\* Graph.add_city: self.cities[name] = Vertex(name); an existing key keeps
\* its place in the dict and gets a fresh Vertex
add_city(g, name) ==
    [cities |-> IF name \in Registered(g) THEN g.cities ELSE Append(g.cities, name),
     edges  |-> [c \in Registered(g) \cup {name} |->
                    IF c = name THEN NoEdges ELSE g.edges[c]]]

\* Vertex.add_edge: self.edges[new_vertex] = weight
add_edge(e, new_vertex, weight) ==
    [c \in DOMAIN e \cup {new_vertex} |-> IF c = new_vertex THEN weight ELSE e[c]]

add_neighbor_sym(g, from_city, to_city, weight) ==
    LET g1 == IF from_city \in Registered(g) THEN g ELSE add_city(g, from_city)
        g2 == IF to_city \in Registered(g1) THEN g1 ELSE add_city(g1, to_city)
        e1 == [g2.edges EXCEPT ![from_city] = add_edge(@, to_city, weight)]
    IN [g2 EXCEPT !.edges = [e1 EXCEPT ![to_city] = add_edge(@, from_city, weight)]]

\* Graph.add_neighbor
add_neighbor(g, from_city, to_city, weight) ==
    LET g1 == IF from_city \in Registered(g) THEN g ELSE add_city(g, from_city)
        g2 == IF to_city \in Registered(g1) THEN g1 ELSE add_city(g1, to_city)
    IN [g2 EXCEPT !.edges[from_city] = add_edge(@, to_city, weight)]

\* Graph.get_cities: list(self.cities.keys())
get_cities(g) == g.cities

get_neighbors_lenient(g, city_name) ==
    IF city_name \notin Registered(g)
    THEN [err |-> "none", val |-> NoEdges]
    ELSE [err |-> "none", val |-> g.edges[city_name]]

\* Graph.get_neighbors: raises ValueError for a city that is not a key
get_neighbors(g, city_name) ==
    IF city_name \notin Registered(g)
    THEN [err |-> "ValueError", val |-> NoEdges]
    ELSE [err |-> "none", val |-> g.edges[city_name]]

----------------------------------------------------------------------------
(* main.py: the graph handed to genetic_algorithm *)

RECURSIVE AddAll(_, _)
\* main.py lines 67-69: add_neighbor for every (city, neighbor, distance)
AddAll(g, rows) ==
    IF rows = <<>> THEN g
    ELSE AddAll(add_neighbor(g, rows[1][1], rows[1][2], rows[1][3]), Tail(rows))

\* a city_distances table over the cities cs, row by row, self-distances 0
CompleteTable(cs, W) ==
    LET n == Len(cs)
    IN [k \in 1..(n * n) |->
           LET a == cs[((k - 1) \div n) + 1]
               b == cs[((k - 1) % n) + 1]
           IN <<a, b, IF a = b THEN 0 ELSE W[a, b]>>]

\* one-way distances: the round A-B-C-A costs 3, the round A-C-B-A costs 7
OneWay ==
    [a \in {"A", "B", "C", "D"}, b \in {"A", "B", "C", "D"} |->
        IF <<a, b>> \in {<<"A", "B">>, <<"B", "C">>, <<"C", "A">>} THEN 1
        ELSE IF <<a, b>> = <<"A", "C">> THEN 3 ELSE 2]

\* all distances 0
Zero == [a \in {"A", "B"}, b \in {"A", "B"} |-> 0]

Graph3 == AddAll(EmptyGraph, CompleteTable(<<"A", "B", "C">>, OneWay))
Graph2Zero == AddAll(EmptyGraph, CompleteTable(<<"A", "B">>, Zero))
Graph4 == AddAll(EmptyGraph, CompleteTable(<<"A", "B", "C", "D">>, OneWay))

\* what genetic_algorithm is run on: a complete graph and a mutation_rate.
\* With mutation_rate 0.5 every child may or may not be mutated, which
\* covers what the other rates can do to a population.
RunInputs == {<<Graph3, 1>>} \cup {<<Graph2Zero, r>> : r \in Rates}

----------------------------------------------------------------------------
(* genetic_algorithm.py: the functions *)

\* a fitness 1 / score is the pair <<1, score>>; float('inf') is <<1, 0>>
Inf == <<1, 0>>

FitnessOf(score) == IF score > 0 THEN <<1, score>> ELSE Inf

\* a < b for two fitness values
FitLess(a, b) == a[1] * b[2] < b[1] * a[2]

EdgeWeightLenient(g, from_city, to_city) ==
    LET nb == get_neighbors(g, from_city)
    IN IF nb.err # "none" THEN [err |-> nb.err, val |-> 0]
       ELSE IF to_city \notin DOMAIN nb.val THEN [err |-> "none", val |-> 0]
       ELSE [err |-> "none", val |-> nb.val[to_city]]

\* graph.get_neighbors(from_city)[to_city]: KeyError when the edge is missing
EdgeWeight(g, from_city, to_city) ==
    LET nb == get_neighbors(g, from_city)
    IN IF nb.err # "none" THEN [err |-> nb.err, val |-> 0]
       ELSE IF to_city \notin DOMAIN nb.val THEN [err |-> "KeyError", val |-> 0]
       ELSE [err |-> "none", val |-> nb.val[to_city]]

RECURSIVE ScoreFrom(_, _, _, _)
\* calculate_fitness lines 68-73: the loop over j, from j with score so far
ScoreFrom(chromosome, g, j, score) ==
    LET chromosome_length == Len(chromosome)
    IN IF j >= chromosome_length THEN [err |-> "none", val |-> score]
       ELSE LET w == EdgeWeight(g, At(chromosome, j),
                                At(chromosome, (j + 1) % chromosome_length))
            IN IF w.err # "none" THEN w
               ELSE ScoreFrom(chromosome, g, j + 1, score + w.val)

\* calculate_fitness: the first exception of any chromosome, else the scores
calculate_fitness(pop, g) ==
    LET sc == [i \in 1..Len(pop) |-> ScoreFrom(pop[i], g, 0, 0)]
        bad == {i \in 1..Len(pop) : sc[i].err # "none"}
    IN IF bad # {}
       THEN [err |-> sc[CHOOSE i \in bad : \A k \in bad : i <= k].err, val |-> <<>>]
       ELSE [err |-> "none", val |-> [i \in 1..Len(pop) |-> FitnessOf(sc[i].val)]]

LastMax(fs) ==
    CHOOSE i \in 1..Len(fs) :
        /\ \A j \in 1..Len(fs) : ~FitLess(fs[i], fs[j])
        /\ \A j \in (i + 1)..Len(fs) : FitLess(fs[j], fs[i])

\* max(..., key=fitness) and list.index(max(...)): the first greatest element
FirstMax(fs) ==
    CHOOSE i \in 1..Len(fs) :
        /\ \A j \in 1..Len(fs) : ~FitLess(fs[i], fs[j])
        /\ \A j \in 1..(i - 1) : FitLess(fs[j], fs[i])

\* selection's tournament_size default
tournament_size == 3

TournamentWinnerLast(fit, draw) ==
    draw[LastMax([k \in 1..Len(draw) |-> At(fit, draw[k])])]

\* selection lines 99-101: the population index of the winner among the
\* competitors drawn, in draw order
TournamentWinner(fit, draw) ==
    draw[FirstMax([k \in 1..Len(draw) |-> At(fit, draw[k])])]

RECURSIVE DistanceFrom(_, _, _, _)
\* calculate_total_distance lines 199-202: the loop over i
DistanceFrom(route, g, i, total_distance) ==
    IF i >= Len(route) THEN [err |-> "none", val |-> total_distance]
    ELSE LET w == EdgeWeight(g, At(route, i), At(route, (i + 1) % Len(route)))
         IN IF w.err # "none" THEN w
            ELSE DistanceFrom(route, g, i + 1, total_distance + w.val)

\* calculate_total_distance
calculate_total_distance(route, g) == DistanceFrom(route, g, 0, 0)

\* sorted(random.sample(range(n), 2)): start < end
CutPairs(n) == {<<d[1], d[2]>> : d \in {x \in Samples(n, 2) : x[1] < x[2]}}

RECURSIVE FillNoSkip(_, _, _, _, _)
FillNoSkip(child, donor, d_index, c_index, stop) ==
    IF None \notin Range(child) \/ d_index >= stop THEN child
    ELSE FillNoSkip([child EXCEPT ![(c_index % Len(child)) + 1] =
                        At(donor, d_index % Len(donor))],
                    donor, d_index + 1, c_index + 1, stop)

RECURSIVE Fill(_, _, _, _, _)
\* crossover lines 141-145 (and 150-154): the while loop. Once the donor has
\* been scanned a full round (d_index = stop) a further round changes
\* nothing: a child still holding None then is a loop that never ends.
Fill(child, donor, d_index, c_index, stop) ==
    IF None \notin Range(child) \/ d_index >= stop THEN child
    ELSE IF At(donor, d_index % Len(donor)) \notin Range(child)
         THEN Fill([child EXCEPT ![(c_index % Len(child)) + 1] =
                       At(donor, d_index % Len(donor))],
                   donor, d_index + 1, c_index + 1, stop)
         ELSE Fill(child, donor, d_index + 1, c_index, stop)

OXChildScanFromZero(keeper, donor, cut) ==
    LET start == cut[1]
        end == cut[2]
        child == [j \in 1..Len(keeper) |->
                     IF start <= j - 1 /\ j - 1 < end THEN keeper[j] ELSE None]
    IN Fill(child, donor, 0, end, Len(donor))

OXChildFromZero(keeper, donor, cut) ==
    LET start == cut[1]
        end == cut[2]
        child == [j \in 1..Len(keeper) |->
                     IF start <= j - 1 /\ j - 1 < end THEN keeper[j] ELSE None]
    IN Fill(child, donor, end, 0, end + Len(donor))

\* crossover lines 131-145: the child that keeps keeper[start:end] and is
\* filled from donor
OXChild(keeper, donor, cut) ==
    LET start == cut[1]
        end == cut[2]
        child == [j \in 1..Len(keeper) |->
                     IF start <= j - 1 /\ j - 1 < end THEN keeper[j] ELSE None]
    IN Fill(child, donor, end, end, end + Len(donor))

\* range(0, num_parents, 2) has this many elements
NumPairs(num_parents) == (num_parents + 1) \div 2

\* crossover lines 125-158 on the shuffled parents sh with the cuts cs
Offspring(sh, cs) ==
    LET num_parents == Len(sh)
    IN [m \in 1..(2 * NumPairs(num_parents)) |->
           LET k == (m + 1) \div 2
               i == 2 * (k - 1)
               parent1 == At(sh, i)
               parent2 == At(sh, (i + 1) % num_parents)
           IN IF m % 2 = 1 THEN OXChild(parent1, parent2, cs[k])
              ELSE OXChild(parent2, parent1, cs[k])]

\* every outcome of crossover(ps): the parents as shuffled in place, the
\* cuts drawn and the offspring; ValueError from random.sample on tours
\* shorter than 2
crossover(ps) ==
    IF ps = <<>> THEN {[err |-> "none", parents |-> ps, cuts |-> <<>>, offspring |-> <<>>]}
    ELSE IF \E i \in 1..Len(ps) : Len(ps[i]) < 2
    THEN {[err |-> "ValueError", parents |-> sh, cuts |-> <<>>, offspring |-> <<>>] :
             sh \in Shuffles(ps)}
    ELSE {[err |-> "none", parents |-> sh, cuts |-> cs, offspring |-> Offspring(sh, cs)] :
             sh \in Shuffles(ps),
             cs \in [1..NumPairs(Len(ps)) -> CutPairs(Len(ps[1]))]}

SwapCopy(child, idx1, idx2) ==
    [child EXCEPT ![idx1 + 1] = At(child, idx2)]

\* mutate line 181
Swap(child, idx1, idx2) ==
    [child EXCEPT ![idx1 + 1] = At(child, idx2), ![idx2 + 1] = At(child, idx1)]

\* mutate lines 179-181 for one child: every outcome
MutateChild(child, rate) ==
    {[err |-> "none", val |-> child] : r \in {x \in RandomDraws : ~(x < rate)}}
    \cup
    (IF \A r \in RandomDraws : ~(r < rate) THEN {}
     ELSE IF Len(child) < 2 THEN {[err |-> "ValueError", val |-> child]}
     ELSE {[err |-> "none", val |-> Swap(child, d[1], d[2])] :
              d \in Samples(Len(child), 2)})

----------------------------------------------------------------------------
(* genetic_algorithm.py: genetic_algorithm, one action per statement.      *)
(* population, fitness_scores, parents, offspring and mutated_offspring    *)
(* hold a value from the statement that assigns them to the last statement *)
(* that reads them, and <<>> otherwise.  The lists that crossover builds   *)
(* (lines 131-132) are new objects, so mutate's swap in place changes one  *)
(* offspring only.                                                         *)

NoCall == [op |-> "none"]

Idle ==
    /\ call = NoCall /\ error = "none" /\ gen = 0
    /\ population = <<>> /\ fitness_scores = <<>> /\ parents = <<>>
    /\ offspring = <<>> /\ mutated_offspring = <<>>
    /\ best_route = <<>> /\ best_fitness = <<>>
    /\ competitors = <<>> /\ cuts = <<>> /\ before = <<>>

Init ==
    /\ \E input \in RunInputs : graph = input[1] /\ mutation_rate = input[2]
    /\ pop_size \in 0..MaxPop
    /\ generations \in -1..MaxGen
    /\ pc = "start"
    /\ Idle

Raise(e) ==
    /\ pc' = "error"
    /\ error' = e
    /\ population' = <<>> /\ fitness_scores' = <<>> /\ parents' = <<>>
    /\ offspring' = <<>> /\ mutated_offspring' = <<>>
    /\ UNCHANGED <<gen, best_route, best_fitness>>

LoopNextOneMore(g) == IF g <= generations THEN "select" ELSE "return"

\* line 226: for _ in range(generations), after g iterations
LoopNext(g) == IF g < generations THEN "select" ELSE "return"

\* initialize_population: pop_size shuffled copies of the city list
initialize_population(size, g) == [1..size -> Shuffles(get_cities(g))]

\* lines 221-224
Initialize ==
    /\ pc = "start"
    /\ \E pop \in initialize_population(pop_size, graph) :
          LET fit == calculate_fitness(pop, graph)
          IN IF fit.err # "none" THEN Raise(fit.err)
             ELSE /\ population' = pop
                  /\ fitness_scores' = fit.val
                  /\ pc' = LoopNext(0)
                  /\ UNCHANGED <<error, gen, parents, offspring, mutated_offspring,
                                 best_route, best_fitness>>
    /\ UNCHANGED <<graph, call, pop_size, generations, mutation_rate,
                   competitors, cuts, before>>

\* every outcome of selection(pop, fit): one tournament for each member of
\* the population (none when it is empty); ValueError from random.sample
\* when the population is smaller than tournament_size
selection(pop, fit) ==
    LET population_size == Len(pop)
        draws == Samples(population_size, tournament_size)
        winners == {At(pop, TournamentWinner(fit, d)) : d \in draws}
    IN IF population_size > 0 /\ draws = {}
       THEN {[err |-> "ValueError", val |-> <<>>]}
       ELSE {[err |-> "none", val |-> w] : w \in [1..population_size -> winners]}

\* line 228: selection(population, fitness_scores)
Select ==
    /\ pc = "select"
    /\ \E o \in selection(population, fitness_scores) :
          IF o.err # "none" THEN Raise(o.err)
          ELSE /\ parents' = o.val
               /\ population' = <<>>
               /\ fitness_scores' = <<>>
               /\ pc' = "crossover"
               /\ UNCHANGED <<error, gen, offspring, mutated_offspring,
                              best_route, best_fitness>>
    /\ UNCHANGED <<graph, call, pop_size, generations, mutation_rate,
                   competitors, cuts, before>>

\* line 231: crossover(parents)
Crossover ==
    /\ pc = "crossover"
    /\ \E o \in {[err |-> x.err, offspring |-> x.offspring] : x \in crossover(parents)} :
          IF o.err # "none" THEN Raise(o.err)
          ELSE /\ offspring' = o.offspring
               /\ parents' = <<>>
               /\ pc' = IF \E i \in 1..Len(o.offspring) : None \in Range(o.offspring[i])
                        THEN "hang" ELSE "mutate"
               /\ UNCHANGED <<error, gen, population, fitness_scores, mutated_offspring,
                              best_route, best_fitness>>
    /\ UNCHANGED <<graph, call, pop_size, generations, mutation_rate,
                   competitors, cuts, before>>

\* mutate lines 178-182: one iteration of the loop, on the child that
\* follows those already appended to mutated_offspring
MutateStep ==
    /\ pc = "mutate"
    /\ Len(mutated_offspring) < Len(offspring)
    /\ LET k == Len(mutated_offspring) + 1
       IN \E o \in MutateChild(offspring[k], mutation_rate) :
             IF o.err # "none" THEN Raise(o.err)
             ELSE /\ offspring' = [offspring EXCEPT ![k] = o.val]
                  /\ mutated_offspring' = Append(mutated_offspring, o.val)
                  /\ UNCHANGED <<pc, error, gen, population, fitness_scores, parents,
                                 best_route, best_fitness>>
    /\ UNCHANGED <<graph, call, pop_size, generations, mutation_rate,
                   competitors, cuts, before>>

\* line 234: mutate returns mutated_offspring (line 184)
Mutate ==
    /\ pc = "mutate"
    /\ Len(mutated_offspring) = Len(offspring)
    /\ offspring' = <<>>
    /\ pc' = "evaluate"
    /\ UNCHANGED <<graph, call, error, pop_size, generations, mutation_rate, gen,
                   population, fitness_scores, parents, mutated_offspring,
                   best_route, best_fitness, competitors, cuts, before>>

\* lines 237-240, and the loop test that follows
Evaluate ==
    /\ pc = "evaluate"
    /\ LET fit == calculate_fitness(mutated_offspring, graph)
       IN IF fit.err # "none" THEN Raise(fit.err)
          ELSE /\ fitness_scores' = fit.val
               /\ population' = mutated_offspring
               /\ mutated_offspring' = <<>>
               /\ gen' = gen + 1
               /\ pc' = LoopNext(gen + 1)
               /\ UNCHANGED <<error, parents, offspring, best_route, best_fitness>>
    /\ UNCHANGED <<graph, call, pop_size, generations, mutation_rate,
                   competitors, cuts, before>>

BestIndexWorst(fit) ==
    (CHOOSE i \in 1..Len(fit) : \A j \in 1..Len(fit) : ~FitLess(fit[j], fit[i])) - 1

\* line 243: fitness_scores.index(max(fitness_scores))
BestIndex(fit) == FirstMax(fit) - 1

\* lines 243-247; max() of an empty list raises ValueError
Return ==
    /\ pc = "return"
    /\ IF fitness_scores = <<>> THEN Raise("ValueError")
       ELSE LET best_index == BestIndex(fitness_scores)
            IN /\ best_route' = At(population, best_index)
               /\ best_fitness' = At(fitness_scores, best_index)
               /\ pc' = "done"
               /\ UNCHANGED <<error, gen, population, fitness_scores, parents,
                              offspring, mutated_offspring>>
    /\ UNCHANGED <<graph, call, pop_size, generations, mutation_rate,
                   competitors, cuts, before>>

Next == Initialize \/ Select \/ Crossover \/ MutateStep \/ Mutate \/ Evaluate \/ Return

Spec == Init /\ [][Next]_vars

Running == pc \in {"start", "select", "crossover", "mutate", "evaluate", "return"}

\* control leaves the statement at pc: for the next statement, the return
\* or an exception
Step ==
    /\ Running
    /\ pc' \in {"select", "crossover", "mutate", "evaluate", "return",
               "done", "error", "hang"}
    /\ pc' # pc

\* genetic_algorithm is one sequential call with no blocking statement: as
\* long as it has neither returned nor raised, it executes its next statement
FairSpec == Spec /\ WF_pc(Step)

----------------------------------------------------------------------------
(* The functions called on their own, on inputs a run can hand them *)

NoRun == pop_size = 0 /\ generations = 0 /\ gen = 0 /\ error = "none" /\ call = NoCall

\* population sizes selection is called on
SelectionSizes == {2, 3, 4}
\* tours of Graph3: two of the fitter round, one of the other
SelectionPool == {<<"A", "B", "C">>, <<"B", "C", "A">>, <<"A", "C", "B">>}

InitSelection ==
    /\ graph = Graph3
    /\ \E n \in SelectionSizes : population \in [1..n -> SelectionPool]
    /\ fitness_scores = calculate_fitness(population, graph).val
    /\ pc = "selection"
    /\ NoRun /\ mutation_rate = 0
    /\ parents = <<>> /\ offspring = <<>> /\ mutated_offspring = <<>>
    /\ best_route = <<>> /\ best_fitness = <<>>
    /\ competitors = <<>> /\ cuts = <<>> /\ before = <<>>

\* selection lines 97-102: one iteration of the loop
Tournament ==
    /\ pc = "selection"
    /\ Len(parents) < Len(population)
    /\ LET draws == Samples(Len(population), tournament_size)
       IN IF draws = {}
          THEN /\ pc' = "error" /\ error' = "ValueError"
               /\ UNCHANGED <<competitors, parents>>
          ELSE \E d \in draws :
                  /\ competitors' = d
                  /\ parents' = Append(parents, At(population, TournamentWinner(fitness_scores, d)))
                  /\ UNCHANGED <<pc, error>>
    /\ UNCHANGED <<graph, call, pop_size, generations, mutation_rate, gen, population,
                   fitness_scores, offspring, mutated_offspring, best_route,
                   best_fitness, cuts, before>>

NextSelection == Tournament

SpecSelection == InitSelection /\ [][NextSelection]_vars

InitCrossover ==
    /\ graph = Graph4
    /\ parents \in [1..2 -> Shuffles(get_cities(graph))]
    /\ pc = "crossover"
    /\ NoRun /\ mutation_rate = 0
    /\ population = <<>> /\ fitness_scores = <<>>
    /\ offspring = <<>> /\ mutated_offspring = <<>>
    /\ best_route = <<>> /\ best_fitness = <<>>
    /\ competitors = <<>> /\ cuts = <<>> /\ before = <<>>

\* crossover(parents), which shuffles parents in place
CrossoverCall ==
    /\ pc = "crossover"
    /\ \E o \in crossover(parents) :
          /\ parents' = o.parents
          /\ cuts' = o.cuts
          /\ offspring' = o.offspring
          /\ error' = o.err
          /\ pc' = IF o.err # "none" THEN "error"
                   ELSE IF \E i \in 1..Len(o.offspring) : None \in Range(o.offspring[i])
                   THEN "hang" ELSE "returned"
    /\ UNCHANGED <<graph, call, pop_size, generations, mutation_rate, gen, population,
                   fitness_scores, mutated_offspring, best_route, best_fitness,
                   competitors, before>>

NextCrossover == CrossoverCall

SpecCrossover == InitCrossover /\ [][NextCrossover]_vars

InitMutate ==
    /\ graph = Graph4
    /\ offspring \in [1..2 -> Shuffles(get_cities(graph))]
    /\ before = offspring
    /\ mutation_rate \in Rates
    /\ pc = "mutate"
    /\ NoRun
    /\ population = <<>> /\ fitness_scores = <<>> /\ parents = <<>>
    /\ mutated_offspring = <<>>
    /\ best_route = <<>> /\ best_fitness = <<>>
    /\ competitors = <<>> /\ cuts = <<>>

\* mutate(offspring, mutation_rate) returns (line 184); the children were
\* swapped in place, so the list passed holds the same tours
MutateCall ==
    /\ pc = "mutate"
    /\ Len(mutated_offspring) = Len(offspring)
    /\ pc' = "returned"
    /\ UNCHANGED <<graph, call, error, pop_size, generations, mutation_rate, gen,
                   population, fitness_scores, parents, offspring, mutated_offspring,
                   best_route, best_fitness, competitors, cuts, before>>

NextMutate == MutateStep \/ MutateCall

SpecMutate == InitMutate /\ [][NextMutate]_vars

----------------------------------------------------------------------------
(* The Graph methods called in any order on a graph that starts empty.     *)
(* call records the method, its arguments, the graph before the call (pre) *)
(* and what the call returned or raised (ret).                             *)

Weights == 0..MaxWeight

InitGraph ==
    /\ graph = EmptyGraph
    /\ pc = "graph"
    /\ NoRun /\ mutation_rate = 0
    /\ population = <<>> /\ fitness_scores = <<>> /\ parents = <<>>
    /\ offspring = <<>> /\ mutated_offspring = <<>>
    /\ best_route = <<>> /\ best_fitness = <<>>
    /\ competitors = <<>> /\ cuts = <<>> /\ before = <<>>

GraphFrame ==
    UNCHANGED <<pc, error, pop_size, generations, mutation_rate, gen, population,
                fitness_scores, parents, offspring, mutated_offspring, best_route,
                best_fitness, competitors, cuts, before>>

Returned == [err |-> "none", val |-> NoEdges]

AddCity ==
    /\ pc = "graph"
    /\ \E name \in Names :
          /\ graph' = add_city(graph, name)
          /\ call' = [op |-> "add_city", a |-> name, b |-> name, w |-> 0,
                      pre |-> graph, ret |-> Returned]
    /\ GraphFrame

AddNeighbor ==
    /\ pc = "graph"
    /\ \E from_city \in Names, to_city \in Names, weight \in Weights :
          /\ graph' = add_neighbor(graph, from_city, to_city, weight)
          /\ call' = [op |-> "add_neighbor", a |-> from_city, b |-> to_city,
                      w |-> weight, pre |-> graph, ret |-> Returned]
    /\ GraphFrame

GetNeighbors ==
    /\ pc = "graph"
    /\ \E city_name \in Names :
          /\ call' = [op |-> "get_neighbors", a |-> city_name, b |-> city_name, w |-> 0,
                      pre |-> graph, ret |-> get_neighbors(graph, city_name)]
          /\ UNCHANGED graph
    /\ GraphFrame

NextGraph == AddCity \/ AddNeighbor \/ GetNeighbors

SpecGraph == InitGraph /\ [][NextGraph]_vars

----------------------------------------------------------------------------
\* calculate_total_distance called on graphs built by the graph operations

\* the routes passed: every list of at most MaxRoute city names, registered
\* or not, repeated or not
Routes == UNION {[1..n -> Names] : n \in 0..MaxRoute}

\* what the caller gets: the value returned, or the exception alone
Outcome(r) == IF r.err # "none" THEN [err |-> r.err] ELSE r

\* calculate_total_distance(route, graph)
TotalDistance ==
    /\ pc = "graph"
    /\ \E route \in Routes :
          call' = [op |-> "calculate_total_distance", route |-> route, pre |-> graph,
                   ret |-> Outcome(calculate_total_distance(route, graph))]
    /\ UNCHANGED graph
    /\ GraphFrame

NextDistance == AddCity \/ AddNeighbor \/ TotalDistance

SpecDistance == InitGraph /\ [][NextDistance]_vars

----------------------------------------------------------------------------
(* Properties *)

\* t holds every city of cs once and nothing else
IsTourOf(t, cs) ==
    /\ Len(t) = Len(cs)
    /\ Range(t) = Range(cs)
    /\ \A i, j \in 1..Len(t) : t[i] = t[j] => i = j

AllTours == Range(population) \cup Range(parents) \cup Range(offspring)
                \cup Range(mutated_offspring)

\* C1: throughout a run of genetic_algorithm every tour of the population,
\* and of the parents and offspring it is made from, holds every registered
\* city exactly once.
C1_ToursArePermutations ==
    /\ pc # "hang"
    /\ \A t \in AllTours : IsTourOf(t, get_cities(graph))
    /\ pc = "done" => IsTourOf(best_route, get_cities(graph))

C1_Witness ==
    /\ pc = "select" /\ gen = 1 /\ graph = Graph3
    /\ Len(population) = 4
    /\ Cardinality(Range(population)) >= 3

\* C2: crossover of two tours of the same cities returns, for every cut,
\* two children that each hold every one of those cities exactly once, with
\* no position left None.
C2_ChildrenArePermutations ==
    pc # "crossover" =>
        /\ pc = "returned"
        /\ Len(offspring) = 2
        /\ \A i \in 1..Len(offspring) : IsTourOf(offspring[i], get_cities(graph))

C2_Witness ==
    /\ pc = "returned" /\ cuts = <<(<<1, 3>>)>>
    /\ parents[1] = <<"A", "B", "C", "D">> /\ parents[2] = <<"D", "C", "B", "A">>
    /\ offspring[1] = <<"D", "B", "C", "A">>
    /\ offspring[2] = <<"A", "C", "B", "D">>

AtGenerationEnd == pc \in {"select", "return", "done"}

\* C3: after every generation the population has pop_size tours.
C3_PopulationSizeConstant ==
    AtGenerationEnd => Len(population) = pop_size

InvalidParameters ==
    \/ pop_size < 2
    \/ tournament_size > pop_size
    \/ mutation_rate < 0 \/ mutation_rate > 2
    \/ generations < 0

\* C4: with an invalid parameter genetic_algorithm raises InvalidParameter
\* before it does anything: it initializes no population and returns no
\* result.
C4_InvalidParametersRejected ==
    InvalidParameters =>
        /\ pc \in {"start", "error"}
        /\ pc = "error" => error = "InvalidParameter"
        /\ population = <<>> /\ fitness_scores = <<>>
        /\ best_route = <<>>

Accepted == pop_size >= 2 /\ generations >= 0 /\ mutation_rate \in 0..2

\* C5 as claimed: with pop_size >= 2, generations >= 0 and mutation_rate in
\* [0,1] on a complete graph no error is reached.
C5_NoErrorWhenAccepted ==
    Accepted => pc # "error"

AcceptedBySelection == Accepted /\ (generations >= 1 => pop_size >= tournament_size)

\* the statement at pc has an outcome
CanStep ==
    CASE pc = "start" -> initialize_population(pop_size, graph) # {}
      [] pc = "select" -> selection(population, fitness_scores) # {}
      [] pc = "crossover" -> crossover(parents) # {}
      [] pc = "mutate" /\ Len(mutated_offspring) < Len(offspring) ->
            MutateChild(offspring[Len(mutated_offspring) + 1], mutation_rate) # {}
      [] OTHER -> TRUE

CycleOrder ==
    /\ pc = "start" => pc' \in {"select", "return"} /\ gen' = 0
    /\ pc = "select" => pc' = "crossover" /\ gen' = gen
    /\ pc = "crossover" => pc' = "mutate" /\ gen' = gen
    /\ pc = "mutate" =>
          /\ gen' = gen
          /\ \/ pc' = "evaluate" /\ Len(mutated_offspring) = Len(offspring)
             \/ /\ pc' = "mutate"
                /\ Len(mutated_offspring') = Len(mutated_offspring) + 1
                /\ Len(mutated_offspring') <= Len(offspring')
    /\ pc = "evaluate" => pc' \in {"select", "return"} /\ gen' = gen + 1
    /\ pc = "return" => pc' = "done" /\ gen' = gen /\ gen = generations

\* C5 amended: with pop_size >= 2, generations >= 0 and mutation_rate in
\* [0,1] on a complete graph of at least 2 cities, and pop_size >= 3 (the
\* tournament size) when generations >= 1, genetic_algorithm reaches its
\* return after exactly `generations` cycles of select, crossover, mutate,
\* evaluate in that order, and raises nothing on the way.
C5_TerminatesWhenSelectable ==
    /\ [](AcceptedBySelection => pc \notin {"error", "hang"} /\ CanStep)
    /\ [][AcceptedBySelection => CycleOrder]_vars
    /\ [](AcceptedBySelection /\ pc = "done" => gen = generations /\ best_route # <<>>)
    /\ (AcceptedBySelection ~> pc = "done")

C5_Witness ==
    /\ pc = "done" /\ AcceptedBySelection
    /\ graph = Graph3 /\ pop_size = 3 /\ generations = 2 /\ gen = 2

\* the fitness of a tour, from its total distance
TourFitness(t) ==
    LET d == calculate_total_distance(t, graph).val
    IN IF d = 0 THEN Inf ELSE <<1, d>>

\* C6: the pair returned is a tour of the final population and its score:
\* no tour of the final population is fitter, and the score is the fitness
\* of the returned tour (1 / its total distance, or the sentinel when that
\* distance is 0); every score is the fitness of the tour at its index.
C6_BestOfFinalGeneration ==
    pc = "done" =>
        /\ Len(fitness_scores) = Len(population)
        /\ \A i \in 1..Len(population) : fitness_scores[i] = TourFitness(population[i])
        /\ \E i \in 1..Len(population) :
              best_route = population[i] /\ best_fitness = fitness_scores[i]
        /\ best_fitness = TourFitness(best_route)
        /\ \A i \in 1..Len(population) : ~FitLess(best_fitness, TourFitness(population[i]))

C6_Witness ==
    /\ pc = "done" /\ gen = 2 /\ graph = Graph3
    /\ best_fitness = <<1, 3>>
    /\ TourFitness(population[1]) = <<1, 7>>
    /\ \E i \in 1..Len(population) : TourFitness(population[i]) = <<1, 3>>

\* C7: every tournament of selection draws tournament_size distinct indices
\* of the population, and the tour it appends to the parents is the one at
\* the first drawn index whose fitness no other drawn index exceeds; there
\* are never more tournaments than tours in the population.
C7_TournamentWinner ==
    competitors # <<>> =>
        /\ Len(parents) \in 1..Len(population)
        /\ Len(competitors) = tournament_size
        /\ \A k \in 1..Len(competitors) : competitors[k] \in 0..(Len(population) - 1)
        /\ \A j, k \in 1..Len(competitors) : competitors[j] = competitors[k] => j = k
        /\ \E k \in 1..Len(competitors) :
              /\ parents[Len(parents)] = At(population, competitors[k])
              /\ \A j \in 1..Len(competitors) :
                    ~FitLess(At(fitness_scores, competitors[k]),
                             At(fitness_scores, competitors[j]))
              /\ \A j \in 1..(k - 1) :
                    FitLess(At(fitness_scores, competitors[j]),
                            At(fitness_scores, competitors[k]))

C7_Witness ==
    /\ Len(population) = 4 /\ Len(parents) = 4
    /\ population = <<(<<"A", "C", "B">>), (<<"A", "B", "C">>),
                      (<<"A", "C", "B">>), (<<"B", "C", "A">>)>>
    /\ competitors = <<2, 3, 1>>
    /\ parents[4] = <<"B", "C", "A">>

Changed(old, new) == {j \in 1..Len(old) : old[j] # new[j]}

\* C8: for a mutation_rate in [0,1] mutate changes, in every tour it is
\* given, no position or exactly two, and the two cities of a changed pair
\* have exchanged their positions.
C8_ZeroOrTwoPositions ==
    (pc = "returned" /\ mutation_rate \in 0..2) =>
        /\ Len(mutated_offspring) = Len(before)
        /\ offspring = mutated_offspring
        /\ \A i \in 1..Len(before) :
              LET D == Changed(before[i], mutated_offspring[i])
              IN /\ Len(mutated_offspring[i]) = Len(before[i])
                 /\ Cardinality(D) \in {0, 2}
                 /\ \A j, k \in D :
                       j # k => mutated_offspring[i][j] = before[i][k]

C8_Witness ==
    /\ pc = "returned" /\ mutation_rate = 1
    /\ Changed(before[1], mutated_offspring[1]) = {1, 4}
    /\ Changed(before[2], mutated_offspring[2]) = {}

Stored(g) == {<<c, d>> \in Names \X Names : c \in Registered(g) /\ d \in DOMAIN g.edges[c]}

\* C9: after add_neighbor(from, to, w) both cities are registered and
\* get_neighbors(from)[to] is w; every other stored connection, the one
\* from `to` to `from` included, is as it was, and no other connection has
\* appeared.
C9_AddNeighbor ==
    call.op = "add_neighbor" =>
        /\ {call.a, call.b} \subseteq Range(get_cities(graph))
        /\ get_neighbors(graph, call.a).err = "none"
        /\ call.b \in DOMAIN get_neighbors(graph, call.a).val
        /\ get_neighbors(graph, call.a).val[call.b] = call.w
        /\ Stored(graph) = Stored(call.pre) \cup {<<call.a, call.b>>}
        /\ \A e \in Stored(call.pre) \ {<<call.a, call.b>>} :
              graph.edges[e[1]][e[2]] = call.pre.edges[e[1]][e[2]]

C9_Witness ==
    /\ call.op = "add_neighbor" /\ call.a = "A" /\ call.b = "B" /\ call.w = 2
    /\ <<"A", "B">> \in Stored(call.pre) /\ call.pre.edges["A"]["B"] = 1
    /\ <<"B", "A">> \in Stored(graph) /\ graph.edges["B"]["A"] = 1

\* C10: get_neighbors(city) raises exactly when city is not registered, and
\* then the graph is as it was; for a registered city it returns that
\* city's outgoing connections and raises nothing.
C10_GetNeighbors ==
    call.op = "get_neighbors" =>
        /\ call.ret.err # "none" <=> call.a \notin Range(get_cities(call.pre))
        /\ call.ret.err # "none" => call.ret.err = "ValueError" /\ graph = call.pre
        /\ call.ret.err = "none" => call.ret.val = call.pre.edges[call.a]

C10_Witness ==
    /\ call.op = "get_neighbors" /\ call.a = "B"
    /\ call.ret.err = "ValueError"
    /\ <<"A", "A">> \in Stored(graph)

\* the consecutive pairs of a route, the wrap-around pair included
RoutePairs(route) ==
    {<<At(route, i), At(route, (i + 1) % Len(route))>> : i \in 0..(Len(route) - 1)}

RECURSIVE SumOfPairs(_, _, _)
\* the sum of the stored weights of the first n consecutive pairs of a route
SumOfPairs(g, route, n) ==
    IF n = 0 THEN 0
    ELSE SumOfPairs(g, route, n - 1)
         + g.edges[At(route, n - 1)][At(route, n % Len(route))]

\* C11: calculate_total_distance(route, graph) raises, and returns no
\* distance at all, whenever some consecutive pair (a, b) of the route, the
\* pair (last, first) included, has no stored connection a->b; when every
\* such connection is stored it returns their sum and raises nothing. The
\* exception is KeyError, or ValueError when a is not a registered city.
C11_MissingEdgeRaises ==
    call.op = "calculate_total_distance" =>
        LET missing == RoutePairs(call.route) \ Stored(call.pre)
        IN /\ graph = call.pre
           /\ missing # {} =>
                 /\ call.ret.err \in {"KeyError", "ValueError"}
                 /\ DOMAIN call.ret = {"err"}
           /\ missing = {} =>
                 /\ call.ret.err = "none"
                 /\ call.ret.val = SumOfPairs(call.pre, call.route, Len(call.route))

C11_Witness ==
    /\ call.op = "calculate_total_distance"
    /\ call.route = <<"A", "B", "A">>
    /\ Stored(call.pre) = {<<"A", "B">>, <<"B", "A">>}
    /\ call.pre.edges["A"]["B"] = 2 /\ call.pre.edges["B"]["A"] = 1
    /\ call.ret = [err |-> "KeyError"]

\* the list s read from index e onward, wrapping modulo its length
Rotated(s, e) == [k \in 1..Len(s) |-> At(s, (e + k - 1) % Len(s))]

\* the cities of p at the positions [start, end) of the cut
KeptSlice(p, cut) == {At(p, j) : j \in cut[1]..(cut[2] - 1)}

\* the list s without the elements of the set S, order kept
Without(s, S) == LET keep(x) == x \notin S IN SelectSeq(s, keep)

\* child holds keeper's slice in place and, from index end onward wrapping,
\* donor's other cities in the order donor has them from index end wrapping
IsOXChildOf(child, keeper, donor, cut) ==
    /\ Len(child) = Len(keeper)
    /\ \A j \in cut[1]..(cut[2] - 1) : At(child, j) = At(keeper, j)
    /\ SubSeq(Rotated(child, cut[2]), 1, Len(child) - (cut[2] - cut[1]))
          = Without(Rotated(donor, cut[2]), KeptSlice(keeper, cut))

\* C12: for each pair (p1, p2) crossover processes with cut start < end,
\* the first child holds p1's cities at [start, end) unchanged and, read from
\* index end onward wrapping, exactly the cities of p2 outside that slice in
\* the order p2 has them when scanned from index end wrapping; the second
\* child is the same with p1 and p2 exchanged.
C12_OrderedCrossover ==
    pc = "returned" =>
        /\ Len(cuts) = NumPairs(Len(parents))
        /\ Len(offspring) = 2 * Len(cuts)
        /\ \A k \in 1..Len(cuts) :
              LET p1 == At(parents, 2 * (k - 1))
                  p2 == At(parents, (2 * (k - 1) + 1) % Len(parents))
              IN /\ cuts[k][1] < cuts[k][2]
                 /\ IsOXChildOf(offspring[2 * k - 1], p1, p2, cuts[k])
                 /\ IsOXChildOf(offspring[2 * k], p2, p1, cuts[k])

C12_Witness ==
    /\ pc = "returned" /\ cuts = <<(<<1, 2>>)>>
    /\ parents[1] = <<"A", "B", "C", "D">> /\ parents[2] = <<"C", "A", "D", "B">>
    /\ offspring[1] = <<"A", "B", "D", "C">>
    /\ offspring[2] = <<"B", "A", "C", "D">>

\* C13: add_city(name) for a city that is already registered leaves
\* get_cities() as it was (same cities, same order) and leaves every other
\* city's outgoing connections as they were, those that point to name
\* included, while name's own outgoing connections become empty.
C13_AddCityAgain ==
    (call.op = "add_city" /\ call.a \in Range(get_cities(call.pre))) =>
        /\ get_cities(graph) = get_cities(call.pre)
        /\ \A c \in Range(get_cities(graph)) \ {call.a} :
              get_neighbors(graph, c) = get_neighbors(call.pre, c)
        /\ get_neighbors(graph, call.a) = [err |-> "none", val |-> NoEdges]

C13_Witness ==
    /\ call.op = "add_city" /\ call.a = "A"
    /\ get_cities(call.pre) = <<"A", "B">>
    /\ Stored(call.pre) = {<<"A", "B">>, <<"B", "A">>, <<"A", "A">>}
    /\ get_cities(graph) = <<"A", "B">>
    /\ Stored(graph) = {<<"B", "A">>} /\ graph.edges["B"]["A"] = 2

====
